---- MODULE Spec2Model ----
(***************************************************************************)
(* A model of multipart-rs, src/src/reader.rs: the two constructors of     *)
(* MultipartReader and the line scanning state machine of poll_next.       *)
(*                                                                         *)
(* Strings and byte slices are sequences of byte values (0..255).          *)
(* Option<T> is a sequence of length at most one: None is <<>>, Some(x) is *)
(* <<x>>.  poll_next is modelled one loop iteration per step: poll_next is *)
(* the entry of a call, the arm_* actions are one iteration of the while   *)
(* loop in the arm the state selects, while_end is the exit of the loop.   *)
(***************************************************************************)
EXTENDS Integers, Sequences, FiniteSets, TLC

VARIABLES
    headers,          \* argument of from_data_with_headers: Vec<(String, String)>
    input,            \* argument `data` of the constructors: the whole buffer
    source,           \* Some(the parts input was rendered from) for a well-formed body
    result,           \* what the constructor returned: "Ok" or a MultipartError
    boundary,         \* MultipartReader.boundary
    multipart_type,   \* MultipartReader.multipart_type
    data,             \* MultipartReader.data: the unconsumed suffix of input
    state,            \* MultipartReader.state: InnerState
    pending_item,     \* MultipartReader.pending_item: Option<MultipartItem>
    pc,               \* "new", "failed", "idle" (between calls), "loop" (inside poll_next), "panic"
    polled            \* the values poll_next has returned so far, in call order

vars == <<headers, input, source, result, boundary, multipart_type, data, state,
          pending_item, pc, polled>>

(***************************************************************************)
(* Bounds of the model.                                                    *)
(***************************************************************************)
MaxLines == 4
MaxParts == 2
MaxPolls == 4
MaxHeaders == 2

(***************************************************************************)
(* Option and small helpers.                                               *)
(***************************************************************************)
None == <<>>
Some(x) == <<x>>
Min(S) == CHOOSE x \in S : \A y \in S : x <= y

RECURSIVE Flatten(_)
Flatten(ss) == IF ss = <<>> THEN <<>> ELSE Head(ss) \o Flatten(Tail(ss))

(***************************************************************************)
(* Byte strings of the source.                                             *)
(***************************************************************************)
CRLF == <<13, 10>>                                              \* "\r\n"
SEP == <<58, 32>>                                               \* ": "
CONTENT_TYPE == <<99, 111, 110, 116, 101, 110, 116, 45, 116, 121, 112, 101>>  \* "content-type"
MULTIPART == <<109, 117, 108, 116, 105, 112, 97, 114, 116>>     \* mime::MULTIPART, "multipart"
BOUNDARY == <<98, 111, 117, 110, 100, 97, 114, 121>>            \* mime::BOUNDARY, "boundary"

(***************************************************************************)
(* Slices: data[from..] and data[..to] with 0-based offsets, as in Rust.   *)
(***************************************************************************)
SliceFrom(s, from) == SubSeq(s, from + 1, Len(s))
SliceTo(s, to) == SubSeq(s, 1, to)

\* <[u8]>::starts_with
starts_with(s, prefix) ==
    /\ Len(prefix) <= Len(s)
    /\ SubSeq(s, 1, Len(prefix)) = prefix

\* memchr::memmem::Finder::find: the 0-based offset of the first occurrence
find(needle, hay) ==
    LET hits == {i \in 0..(Len(hay) - Len(needle)) :
                    SubSeq(hay, i + 1, i + Len(needle)) = needle}
    IN IF hits = {} THEN None ELSE Some(Min(hits))

(***************************************************************************)
(* str::from_utf8: whether the bytes are well-formed UTF-8.                *)
(***************************************************************************)
IsCont(b) == b >= 128 /\ b <= 191

RECURSIVE from_utf8_ok(_)
from_utf8_ok(s) ==
    IF s = <<>> THEN TRUE
    ELSE LET b == s[1]
             n == Len(s)
         IN IF b < 128 THEN from_utf8_ok(SliceFrom(s, 1))
            ELSE IF b >= 194 /\ b <= 223
                 THEN n >= 2 /\ IsCont(s[2]) /\ from_utf8_ok(SliceFrom(s, 2))
            ELSE IF b >= 224 /\ b <= 239
                 THEN /\ n >= 3
                      /\ IsCont(s[2]) /\ IsCont(s[3])
                      /\ (b = 224 => s[2] >= 160)
                      /\ (b = 237 => s[2] <= 159)
                      /\ from_utf8_ok(SliceFrom(s, 3))
            ELSE IF b >= 240 /\ b <= 244
                 THEN /\ n >= 4
                      /\ IsCont(s[2]) /\ IsCont(s[3]) /\ IsCont(s[4])
                      /\ (b = 240 => s[2] >= 144)
                      /\ (b = 244 => s[2] <= 143)
                      /\ from_utf8_ok(SliceFrom(s, 4))
            ELSE FALSE

(***************************************************************************)
(* str::trim, on the whitespace the model's alphabet has: the ASCII        *)
(* White_Space characters (tab, LF, VT, FF, CR, space).                    *)
(***************************************************************************)
IsWhitespace(b) == (b >= 9 /\ b <= 13) \/ b = 32

RECURSIVE trim_start(_)
trim_start(s) ==
    IF s # <<>> /\ IsWhitespace(s[1]) THEN trim_start(Tail(s)) ELSE s

RECURSIVE trim_end(_)
trim_end(s) ==
    IF s # <<>> /\ IsWhitespace(s[Len(s)])
    THEN trim_end(SubSeq(s, 1, Len(s) - 1)) ELSE s

trim(s) == trim_end(trim_start(s))

(***************************************************************************)
(* str::split(pat).collect(): the pieces between the occurrences of pat,   *)
(* found left to right.                                                    *)
(***************************************************************************)
RECURSIVE split(_, _)
split(s, pat) ==
    LET at == find(pat, s)
    IN IF at = None THEN <<s>>
       ELSE <<SliceTo(s, at[1])>> \o split(SliceFrom(s, at[1] + Len(pat)), pat)

(***************************************************************************)
(* String::to_lowercase, on ASCII.                                         *)
(***************************************************************************)
to_lowercase(s) ==
    [i \in 1..Len(s) |-> IF s[i] >= 65 /\ s[i] <= 90 THEN s[i] + 32 ELSE s[i]]

(***************************************************************************)
(* <mime::Mime as FromStr>::from_str, for unquoted parameter values:       *)
(* type "/" subtype *( ";" *" " name "=" value ).  The type, the subtype   *)
(* and the parameter names are lowercased, the values are kept.  Some of a *)
(* record, or None for a parse error.                                      *)
(***************************************************************************)
IsToken(b) ==
    \/ (b >= 48 /\ b <= 57) \/ (b >= 65 /\ b <= 90) \/ (b >= 97 /\ b <= 122)
    \/ b \in {33, 35, 36, 37, 38, 39, 42, 43, 45, 46, 94, 95, 96, 124, 126}

\* the position (1-based) of the first byte at or after p that is no token byte
TokenEnd(s, p) ==
    LET stops == {q \in p..Len(s) : ~IsToken(s[q])}
    IN IF stops = {} THEN Len(s) + 1 ELSE Min(stops)

RECURSIVE mime_params(_, _)
mime_params(s, p) ==
    IF p > Len(s) THEN Some(<<>>)
    ELSE IF s[p] = 32 THEN mime_params(s, p + 1)
    ELSE LET e == TokenEnd(s, p)
         IN IF e > Len(s) \/ e = p \/ s[e] # 61 THEN None
            ELSE LET ve == TokenEnd(s, e + 1)
                     pair == <<to_lowercase(SubSeq(s, p, e - 1)), SubSeq(s, e + 1, ve - 1)>>
                 IN IF ve > Len(s) THEN Some(<<pair>>)
                    ELSE IF s[ve] = 59 /\ ve > e + 1
                         THEN LET rest == mime_params(s, ve + 1)
                              IN IF rest = None THEN None
                                 ELSE Some(<<pair>> \o rest[1])
                    ELSE None

mime_parse(s) ==
    LET slash == TokenEnd(s, 1)
    IN IF slash > Len(s) \/ slash = 1 \/ s[slash] # 47 THEN None
       ELSE LET e == TokenEnd(s, slash + 1)
                ty == to_lowercase(SubSeq(s, 1, slash - 1))
                sub == to_lowercase(SubSeq(s, slash + 1, e - 1))
            IN IF e > Len(s)
               THEN Some([type_ |-> ty, subtype |-> sub, params |-> <<>>])
               ELSE IF s[e] \in {59, 32} /\ e > slash + 1
                    THEN LET ps == mime_params(s, e + 1)
                         IN IF ps = None THEN None
                            ELSE Some([type_ |-> ty, subtype |-> sub, params |-> ps[1]])
               ELSE None

\* Mime::get_param: the value of the first parameter of that name
get_param(mime, name) ==
    LET hits == {i \in 1..Len(mime.params) : mime.params[i][1] = name}
    IN IF hits = {} THEN None ELSE Some(mime.params[Min(hits)][2])

(***************************************************************************)
(* <MultipartType as FromStr>::from_str: the closed enumeration of the     *)
(* recognized subtypes.                                                    *)
(***************************************************************************)
FORM_DATA == <<102, 111, 114, 109, 45, 100, 97, 116, 97>>                \* "form-data"
MIXED == <<109, 105, 120, 101, 100>>                                     \* "mixed"
BYTE_RANGES == <<98, 121, 116, 101, 45, 114, 97, 110, 103, 101, 115>>    \* "byte-ranges"

MultipartType == {"FormData", "Mixed", "ByteRanges"}

multipart_type_from_str(s) ==
    IF s = FORM_DATA THEN Some("FormData")
    ELSE IF s = MIXED THEN Some("Mixed")
    ELSE IF s = BYTE_RANGES THEN Some("ByteRanges")
    ELSE None

(***************************************************************************)
(* The constructors.  A Result is Ok(reader) or Err(error).                *)
(***************************************************************************)
Ok(r) == [ok |-> TRUE, val |-> <<r>>, err |-> ""]
Err(e) == [ok |-> FALSE, val |-> <<>>, err |-> e]

MultipartReader(d, b, t) ==
    [data |-> d, boundary |-> b, multipart_type |-> t,
     state |-> "FirstBoundary", pending_item |-> None]

from_data_with_boundary_and_type(d, b, t) == Ok(MultipartReader(d, b, t))

\* the name compared as written
find_content_type_exact(hs) ==
    LET hits == {i \in 1..Len(hs) : hs[i][1] = CONTENT_TYPE}
    IN IF hits = {} THEN None ELSE Some(hs[Min(hits)])

\* headers.iter().find(|(key, _)| key.to_lowercase() == "content-type")
find_content_type(hs) ==
    LET hits == {i \in 1..Len(hs) : to_lowercase(hs[i][1]) = CONTENT_TYPE}
    IN IF hits = {} THEN None ELSE Some(hs[Min(hits)])

\* a missing boundary parameter taken as the empty boundary
from_data_with_headers_default(d, hs) ==
    LET content_type == find_content_type(hs)
    IN IF content_type = None THEN Err("NoContentType")
       ELSE LET ct == mime_parse(content_type[1][2])
            IN IF ct = None THEN Err("InvalidContentType")
               ELSE LET b == get_param(ct[1], BOUNDARY)
                        bv == IF b = None THEN <<>> ELSE b[1]
                    IN IF ct[1].type_ # MULTIPART THEN Err("InvalidContentType")
                       ELSE LET mt == multipart_type_from_str(ct[1].subtype)
                            IN IF mt = None THEN Err("InvalidMultipartType")
                               ELSE Ok(MultipartReader(d, bv, mt[1]))

from_data_with_headers(d, hs) ==
    LET content_type == find_content_type(hs)
    IN IF content_type = None THEN Err("NoContentType")
       ELSE LET ct == mime_parse(content_type[1][2])
            IN IF ct = None THEN Err("InvalidContentType")
               ELSE LET b == get_param(ct[1], BOUNDARY)
                    IN IF b = None THEN Err("InvalidBoundary")
                       ELSE IF ct[1].type_ # MULTIPART THEN Err("InvalidContentType")
                       ELSE LET mt == multipart_type_from_str(ct[1].subtype)
                            IN IF mt = None THEN Err("InvalidMultipartType")
                               ELSE Ok(MultipartReader(d, b[1], mt[1]))

\* the boundary test as equality
is_boundary_exact(b, line) == line = b

\* MultipartReader::is_boundary
is_boundary(b, line) == starts_with(line, b)

(***************************************************************************)
(* The inputs.  Lines of a body, without their terminator.                 *)
(***************************************************************************)
BoundaryBytes == <<45, 66>>                 \* "-B", the boundary of the bodies below
L_B == <<45, 66>>                           \* "-B": the boundary, exactly
L_BX == <<45, 66, 45, 45>>                  \* "-B--": the boundary, then more bytes
L_EMPTY == <<>>                             \* the empty line
L_SP == <<32>>                              \* " ": whitespace only
L_KV == <<107, 58, 32, 118>>                \* "k: v": one separator
L_KV2 == <<75, 58, 32, 118>>                \* "K: v": one separator, another name
L_KVW == <<107, 58, 32, 118, 58, 32, 119>>  \* "k: v: w": two separators
L_DASH == <<45>>                            \* "-": no separator, a proper prefix of the boundary
L_BAD == <<255, 58, 32, 118>>               \* "\xFF: v": one separator, a byte that is no UTF-8

RawLines == {L_B, L_BX, L_SP, L_KV, L_KVW, L_DASH, L_BAD}
Tails == {<<>>, <<45, 66>>}                 \* what follows the last terminator

SeqsUpTo(S, n) == UNION {[1..k -> S] : k \in 0..n}

Terminated(ls) == Flatten([i \in 1..Len(ls) |-> ls[i] \o CRLF])

\* any lines, each CRLF-terminated, then an unterminated tail; the blank
\* line of these bodies is the whitespace-only one
RawBodies == {Terminated(ls) \o tail : ls \in SeqsUpTo(RawLines, MaxLines), tail \in Tails}

\* well-formed bodies: an opening boundary line, then parts of header lines,
\* a blank line, body lines and a boundary line
HeaderSeqs == {<<>>, <<L_KV, L_KV>>, <<L_KV2, L_KV>>}
BodySeqs == {<<>>, <<L_BAD, L_DASH>>, <<L_KV, L_EMPTY>>}
Closings == {L_B, L_BX}
PartSources == [headers : HeaderSeqs, body : BodySeqs, close : Closings]
WellFormedSources == SeqsUpTo(PartSources, MaxParts)

RenderPart(p) == Terminated(p.headers \o <<L_EMPTY>> \o p.body \o <<p.close>>)
Render(src) == Terminated(<<L_B>>) \o Flatten([k \in 1..Len(src) |-> RenderPart(src[k])])

\* header collections for from_data_with_headers
HeaderNames ==
    { <<67, 111, 110, 116, 101, 110, 116, 45, 84, 121, 112, 101>>,   \* "Content-Type"
      <<67, 79, 78, 84, 69, 78, 84, 45, 84, 89, 80, 69>>,            \* "CONTENT-TYPE"
      <<99, 111, 110, 116, 101, 110, 116, 45, 116, 121, 112>>,       \* "content-typ"
      <<104, 111, 115, 116>> }                                       \* "host"

HeaderValues ==
    { \* "multipart/form-data; boundary=-B"
      <<109, 117, 108, 116, 105, 112, 97, 114, 116, 47, 102, 111, 114, 109, 45, 100, 97,
        116, 97, 59, 32, 98, 111, 117, 110, 100, 97, 114, 121, 61, 45, 66>>,
      \* "text/plain"
      <<116, 101, 120, 116, 47, 112, 108, 97, 105, 110>>,
      \* "multipart/form-data"
      <<109, 117, 108, 116, 105, 112, 97, 114, 116, 47, 102, 111, 114, 109, 45, 100, 97,
        116, 97>>,
      \* "multipart/bogus; boundary=-B"
      <<109, 117, 108, 116, 105, 112, 97, 114, 116, 47, 98, 111, 103, 117, 115, 59, 32,
        98, 111, 117, 110, 100, 97, 114, 121, 61, 45, 66>>,
      \* "text/plain; boundary=-B"
      <<116, 101, 120, 116, 47, 112, 108, 97, 105, 110, 59, 32, 98, 111, 117, 110, 100,
        97, 114, 121, 61, 45, 66>>,
      \* "Multipart/Mixed; Boundary=Xy"
      <<77, 117, 108, 116, 105, 112, 97, 114, 116, 47, 77, 105, 120, 101, 100, 59, 32,
        66, 111, 117, 110, 100, 97, 114, 121, 61, 88, 121>>,
      \* "garbage"
      <<103, 97, 114, 98, 97, 103, 101>> }

HeaderCollections == SeqsUpTo(HeaderNames \X HeaderValues, MaxHeaders)

\* the headers that come with the bodies above: "Content-Type" with
\* "multipart/form-data; boundary=-B"
HeadersOfBodies ==
    << << <<67, 111, 110, 116, 101, 110, 116, 45, 84, 121, 112, 101>>,
          <<109, 117, 108, 116, 105, 112, 97, 114, 116, 47, 102, 111, 114, 109, 45, 100,
            97, 116, 97, 59, 32, 98, 111, 117, 110, 100, 97, 114, 121, 61, 45, 66>> >> >>

\* the bodies given to from_data_with_headers: one well-formed part; a bad header
CtorBodies ==
    { Terminated(<<L_B, L_KV, L_EMPTY, L_DASH, L_B>>),
      Terminated(<<L_DASH, L_B, L_DASH, L_B>>) }

(***************************************************************************)
(* The state before a constructor has run.                                 *)
(***************************************************************************)
Unconstructed ==
    /\ result = ""
    /\ boundary = <<>>
    /\ multipart_type = ""
    /\ data = <<>>
    /\ state = ""
    /\ pending_item = None
    /\ pc = "new"
    /\ polled = <<>>

Init ==
    /\ \/ /\ input \in RawBodies
          /\ source = None
       \/ \E src \in WellFormedSources :
             /\ input = Render(src)
             /\ source = Some(src)
    /\ headers = HeadersOfBodies
    /\ Unconstructed

InitCtor ==
    /\ input \in CtorBodies
    /\ source = None
    /\ headers \in HeaderCollections
    /\ Unconstructed

\* the caller takes the constructor's Result
Construct(r) ==
    /\ pc = "new"
    /\ IF r.ok
       THEN /\ result' = "Ok"
            /\ boundary' = r.val[1].boundary
            /\ multipart_type' = r.val[1].multipart_type
            /\ data' = r.val[1].data
            /\ state' = r.val[1].state
            /\ pending_item' = r.val[1].pending_item
            /\ pc' = "idle"
       ELSE /\ result' = r.err
            /\ pc' = "failed"
            /\ UNCHANGED <<boundary, multipart_type, data, state, pending_item>>
    /\ UNCHANGED <<headers, input, source, polled>>

new_with_boundary_and_type ==
    \E b \in {BoundaryBytes}, t \in {"FormData"} :
        Construct(from_data_with_boundary_and_type(input, b, t))

new_with_headers == Construct(from_data_with_headers(input, headers))

(***************************************************************************)
(* poll_next.  The values it returns:                                      *)
(*   Poll::Ready(None), Poll::Ready(Some(Ok(item))), Poll::Ready(Some(Err))*)
(***************************************************************************)
ReadyNone == [tag |-> "None", item |-> <<>>, err |-> ""]
ReadyOk(item) == [tag |-> "Ok", item |-> <<item>>, err |-> ""]
ReadyErr(e) == [tag |-> "Err", item |-> <<>>, err |-> e]

EmptyItem == [headers |-> <<>>, data |-> <<>>]

Return(v) ==
    /\ pc' = "idle"
    /\ polled' = Append(polled, v)

\* finder.find(this.data), and the line &this.data[..idx] when there is one
idx == find(CRLF, data)
\* the slice taken one byte too long: the line keeps its CR
line_with_cr == SliceTo(data, idx[1] + 1)
line == SliceTo(data, idx[1])
\* the line skipped without its terminator
skip_line_short == SliceFrom(data, idx[1])
\* this.data = &this.data[2 + idx..]
skip_line == SliceFrom(data, 2 + idx[1])

\* a call of poll_next: lines 108-113
poll_next ==
    /\ pc = "idle"
    /\ Len(polled) < MaxPolls
    /\ pc' = "loop"
    /\ UNCHANGED <<headers, input, source, result, boundary, multipart_type, data, state,
                   pending_item, polled>>

\* the rest of the buffer taken as a last body line
while_end_flush ==
    /\ pc = "loop"
    /\ idx = None
    /\ IF state = "Boundary" /\ pending_item # None
       THEN /\ pending_item' = Some([pending_item[1] EXCEPT !.data = @ \o data])
            /\ data' = <<>>
       ELSE UNCHANGED <<data, pending_item>>
    /\ Return(ReadyNone)
    /\ UNCHANGED <<headers, input, source, result, boundary, multipart_type, state>>

\* the pending item handed out where the buffer ends
while_end_emit ==
    /\ pc = "loop"
    /\ idx = None
    /\ IF pending_item # None
       THEN Return(ReadyOk(pending_item[1])) /\ pending_item' = None
       ELSE Return(ReadyNone) /\ UNCHANGED pending_item
    /\ UNCHANGED <<headers, input, source, result, boundary, multipart_type, data, state>>

\* the loop ends, no terminator is left: lines 115, 201
while_end ==
    /\ pc = "loop"
    /\ idx = None
    /\ Return(ReadyNone)
    /\ UNCHANGED <<headers, input, source, result, boundary, multipart_type, data, state,
                   pending_item>>

\* the preamble held to be text, as header lines are
arm_FirstBoundary_strict ==
    /\ pc = "loop"
    /\ idx # None
    /\ state = "FirstBoundary"
    /\ IF is_boundary(boundary, line) \/ from_utf8_ok(line)
       THEN /\ state' = IF is_boundary(boundary, line) THEN "Headers" ELSE state
            /\ data' = skip_line
            /\ UNCHANGED <<pc, polled>>
       ELSE /\ state' = "Eof"
            /\ Return(ReadyErr("InvalidItemHeader"))
            /\ UNCHANGED data
    /\ UNCHANGED <<headers, input, source, result, boundary, multipart_type, pending_item>>

\* the first line opening the headers whatever it holds
arm_FirstBoundary_any ==
    /\ pc = "loop"
    /\ idx # None
    /\ state = "FirstBoundary"
    /\ state' = "Headers"
    /\ data' = skip_line
    /\ UNCHANGED <<headers, input, source, result, boundary, multipart_type, pending_item,
                   pc, polled>>

\* InnerState::FirstBoundary: lines 118-123, 198
arm_FirstBoundary ==
    /\ pc = "loop"
    /\ idx # None
    /\ state = "FirstBoundary"
    /\ state' = IF is_boundary(boundary, line) THEN "Headers" ELSE state
    /\ data' = skip_line
    /\ UNCHANGED <<headers, input, source, result, boundary, multipart_type, pending_item,
                   pc, polled>>

\* the item returned with the cursor left on the boundary line
arm_Boundary_noskip ==
    /\ pc = "loop"
    /\ idx # None
    /\ state = "Boundary"
    /\ pending_item # None
    /\ IF is_boundary(boundary, line)
       THEN /\ pending_item' = None
            /\ data' = data
            /\ state' = "Headers"
            /\ Return(ReadyOk(pending_item[1]))
       ELSE /\ pending_item' = Some([pending_item[1] EXCEPT !.data = @ \o line])
            /\ data' = skip_line
            /\ UNCHANGED <<state, pc, polled>>
    /\ UNCHANGED <<headers, input, source, result, boundary, multipart_type>>

\* a boundary line right after the headers opening a fresh item, no Part returned
arm_Boundary_fresh ==
    /\ pc = "loop"
    /\ idx # None
    /\ state = "Boundary"
    /\ pending_item # None
    /\ IF is_boundary(boundary, line)
       THEN IF pending_item[1].data # <<>>
            THEN /\ pending_item' = None
                 /\ data' = skip_line
                 /\ state' = "Headers"
                 /\ Return(ReadyOk(pending_item[1]))
            ELSE /\ state' = "Headers"
                 /\ pending_item' = Some(EmptyItem)
                 /\ data' = skip_line
                 /\ UNCHANGED <<pc, polled>>
       ELSE /\ pending_item' = Some([pending_item[1] EXCEPT !.data = @ \o line])
            /\ data' = skip_line
            /\ UNCHANGED <<state, pc, polled>>
    /\ UNCHANGED <<headers, input, source, result, boundary, multipart_type>>

\* the line appended after a separator
extend_with_crlf(body, l) == IF body = <<>> THEN l ELSE body \o CRLF \o l

\* Vec::extend_from_slice: lines 144-148
extend_from_slice(body, l) == body \o l

\* InnerState::Boundary: lines 124-149, 198
arm_Boundary ==
    /\ pc = "loop"
    /\ idx # None
    /\ state = "Boundary"
    /\ IF is_boundary(boundary, line)
       THEN IF pending_item # None
            THEN \* lines 128-134: take the item and return it
                 /\ pending_item' = None
                 /\ data' = skip_line
                 /\ state' = "Headers"
                 /\ Return(ReadyOk(pending_item[1]))
            ELSE \* lines 136-148, 198: a fresh item, which gets the line
                 /\ state' = "Headers"
                 /\ pending_item' = Some([EmptyItem EXCEPT !.data = extend_from_slice(@, line)])
                 /\ data' = skip_line
                 /\ UNCHANGED <<pc, polled>>
       ELSE IF pending_item # None
            THEN \* lines 144-148, 198
                 /\ pending_item' =
                        Some([pending_item[1] EXCEPT !.data = extend_from_slice(@, line)])
                 /\ data' = skip_line
                 /\ UNCHANGED <<state, pc, polled>>
            ELSE \* line 146: unwrap of None
                 /\ pc' = "panic"
                 /\ UNCHANGED <<data, state, pending_item, polled>>
    /\ UNCHANGED <<headers, input, source, result, boundary, multipart_type>>

\* only a line without separator rejected
bad_header_parts_lt(header_parts) == Len(header_parts) < 2

\* header_parts.len() != 2: line 178
bad_header_parts(header_parts) == Len(header_parts) # 2

\* the name lowercased
header_entry_lower(header_parts) == <<to_lowercase(header_parts[1]), header_parts[2]>>

\* (header_parts[0].to_string(), header_parts[1].to_string()): line 190
header_entry(header_parts) == <<header_parts[1], header_parts[2]>>

\* a boundary line met among the headers opening the next headers
arm_Headers_boundary ==
    /\ pc = "loop"
    /\ idx # None
    /\ state = "Headers"
    /\ LET item == IF pending_item = None THEN EmptyItem ELSE pending_item[1]
           header_parts == split(line, SEP)
       IN IF is_boundary(boundary, line)
          THEN /\ pending_item' = Some(item)
               /\ data' = skip_line
               /\ UNCHANGED <<state, pc, polled>>
          ELSE IF ~from_utf8_ok(line)
          THEN /\ pending_item' = Some(item)
               /\ state' = "Eof"
               /\ Return(ReadyErr("InvalidItemHeader"))
               /\ UNCHANGED data
          ELSE IF trim(line) = <<>>
          THEN /\ pending_item' = Some(item)
               /\ data' = skip_line
               /\ state' = "Boundary"
               /\ UNCHANGED <<pc, polled>>
          ELSE IF bad_header_parts(header_parts)
          THEN /\ pending_item' = Some(item)
               /\ state' = "Eof"
               /\ Return(ReadyErr("InvalidItemHeader"))
               /\ UNCHANGED data
          ELSE /\ pending_item' =
                      Some([item EXCEPT !.headers = Append(@, header_entry(header_parts))])
               /\ data' = skip_line
               /\ UNCHANGED <<state, pc, polled>>
    /\ UNCHANGED <<headers, input, source, result, boundary, multipart_type>>

\* the pending item created only when its first header is stored
arm_Headers_lazy ==
    /\ pc = "loop"
    /\ idx # None
    /\ state = "Headers"
    /\ LET item == IF pending_item = None THEN EmptyItem ELSE pending_item[1]
           header_parts == split(line, SEP)
       IN IF ~from_utf8_ok(line)
          THEN /\ state' = "Eof"
               /\ Return(ReadyErr("InvalidItemHeader"))
               /\ UNCHANGED <<data, pending_item>>
          ELSE IF trim(line) = <<>>
          THEN /\ data' = skip_line
               /\ state' = "Boundary"
               /\ UNCHANGED <<pc, polled, pending_item>>
          ELSE IF bad_header_parts(header_parts)
          THEN /\ state' = "Eof"
               /\ Return(ReadyErr("InvalidItemHeader"))
               /\ UNCHANGED <<data, pending_item>>
          ELSE /\ pending_item' =
                      Some([item EXCEPT !.headers = Append(@, header_entry(header_parts))])
               /\ data' = skip_line
               /\ UNCHANGED <<state, pc, polled>>
    /\ UNCHANGED <<headers, input, source, result, boundary, multipart_type>>

\* InnerState::Headers: lines 150-191, 198
arm_Headers ==
    /\ pc = "loop"
    /\ idx # None
    /\ state = "Headers"
    /\ LET item == IF pending_item = None THEN EmptyItem ELSE pending_item[1]  \* 152-157
           header_parts == split(line, SEP)
       IN IF ~from_utf8_ok(line)
          THEN \* lines 162-167
               /\ pending_item' = Some(item)
               /\ state' = "Eof"
               /\ Return(ReadyErr("InvalidItemHeader"))
               /\ UNCHANGED data
          ELSE IF trim(line) = <<>>
          THEN \* lines 171-175
               /\ pending_item' = Some(item)
               /\ data' = skip_line
               /\ state' = "Boundary"
               /\ UNCHANGED <<pc, polled>>
          ELSE IF bad_header_parts(header_parts)
          THEN \* lines 178-183
               /\ pending_item' = Some(item)
               /\ state' = "Eof"
               /\ Return(ReadyErr("InvalidItemHeader"))
               /\ UNCHANGED data
          ELSE \* lines 186-190, 198
               /\ pending_item' =
                      Some([item EXCEPT !.headers = Append(@, header_entry(header_parts))])
               /\ data' = skip_line
               /\ UNCHANGED <<state, pc, polled>>
    /\ UNCHANGED <<headers, input, source, result, boundary, multipart_type>>

\* the Eof arm skipping the line and reading on
arm_Eof_resume ==
    /\ pc = "loop"
    /\ idx # None
    /\ state = "Eof"
    /\ state' = "Headers"
    /\ data' = skip_line
    /\ pending_item' = None
    /\ UNCHANGED <<headers, input, source, result, boundary, multipart_type, pc, polled>>

\* the Eof arm giving the error again on every call
arm_Eof_sticky ==
    /\ pc = "loop"
    /\ idx # None
    /\ state = "Eof"
    /\ Return(ReadyErr("InvalidItemHeader"))
    /\ UNCHANGED <<headers, input, source, result, boundary, multipart_type, data, state,
                   pending_item>>

\* InnerState::Eof: lines 192-194
arm_Eof ==
    /\ pc = "loop"
    /\ idx # None
    /\ state = "Eof"
    /\ Return(ReadyNone)
    /\ UNCHANGED <<headers, input, source, result, boundary, multipart_type, data, state,
                   pending_item>>

Next ==
    \/ new_with_boundary_and_type
    \/ new_with_headers
    \/ poll_next
    \/ while_end
    \/ arm_FirstBoundary
    \/ arm_Boundary
    \/ arm_Headers
    \/ arm_Eof

NextCtor ==
    \/ new_with_headers
    \/ poll_next
    \/ while_end
    \/ arm_FirstBoundary
    \/ arm_Boundary
    \/ arm_Headers
    \/ arm_Eof

Spec == Init /\ [][Next]_vars

SpecCtor == InitCtor /\ [][NextCtor]_vars

(***************************************************************************)
(* What the claims speak of, stated on the bytes of the buffer and not     *)
(* through the reader's own operators.                                     *)
(***************************************************************************)
Constructed == pc \in {"idle", "loop", "panic"}
Returned == pc = "idle" /\ polled # <<>>
LastPolled == polled[Len(polled)]

\* a terminator starts at offset i (0-based) of s
TerminatorAt(s, i) == i + 2 <= Len(s) /\ s[i + 1] = 13 /\ s[i + 2] = 10
HasTerminator(s) == \E i \in 0..(Len(s) - 2) : TerminatorAt(s, i)

\* the terminated lines of s, in order, without their terminators
RECURSIVE LinesOf(_)
LinesOf(s) ==
    IF ~HasTerminator(s) THEN <<>>
    ELSE LET i == Min({j \in 0..(Len(s) - 2) : TerminatorAt(s, j)})
         IN <<SubSeq(s, 1, i)>> \o LinesOf(SubSeq(s, i + 3, Len(s)))

\* the bytes the cursor has passed, and the lines in them
Consumed == SubSeq(input, 1, Len(input) - Len(data))
ConsumedLines == LinesOf(Consumed)

BeginsWith(l, b) == Len(l) >= Len(b) /\ \A i \in 1..Len(b) : l[i] = b[i]
IsBlank(l) == \A i \in 1..Len(l) : l[i] \in {9, 10, 11, 12, 13, 32}
Occurrences(pat, l) ==
    Cardinality({i \in 0..(Len(l) - Len(pat)) : SubSeq(l, i + 1, i + Len(pat)) = pat})

\* a "name: value" line: text, not blank, the separator once
IsHeaderLine(l) == from_utf8_ok(l) /\ ~IsBlank(l) /\ Occurrences(SEP, l) = 1
\* its name and its value
PairOf(l) ==
    CHOOSE p \in {<<SubSeq(l, 1, i), SubSeq(l, i + 3, Len(l))>> : i \in 0..(Len(l) - 2)} :
        p[1] \o SEP \o p[2] = l

\* the Part a well-formed source part describes
ExpectedPart(p) ==
    [headers |-> [i \in 1..Len(p.headers) |-> PairOf(p.headers[i])],
     data |-> Flatten(p.body)]

\* C1: polling a well-formed body of N parts returns the N parts of the
\* source, in order, each with its headers and its body lines (terminators
\* stripped), then only Ready(None), and never an error.
C1_WellFormedBodyYieldsItsParts ==
    (Constructed /\ source # None) =>
        \A k \in 1..Len(polled) :
            IF k <= Len(source[1])
            THEN polled[k] = ReadyOk(ExpectedPart(source[1][k]))
            ELSE polled[k] = ReadyNone

\* two parts with headers and bodies were returned, then Ready(None) twice
C1_Witness ==
    /\ source # None
    /\ Len(source[1]) = 2
    /\ source[1][1].headers = <<L_KV2, L_KV>>
    /\ source[1][1].body = <<L_KV, L_EMPTY>>
    /\ source[1][2].body = <<L_BAD, L_DASH>>
    /\ Returned
    /\ Len(polled) = 4
    /\ polled[2].tag = "Ok"
    /\ polled[4] = ReadyNone

\* the line a loop iteration is about to scan
Scanning == pc = "loop" /\ HasTerminator(data)
NextLine == LinesOf(data)[1]
ReturnedOk == Returned /\ LastPolled.tag = "Ok"
ReturnsNow == polled' # polled
NoOkAfter(tag) ==
    \A j \in 1..Len(polled) : \A k \in (j + 1)..Len(polled) :
        polled[j].tag = tag => polled[k].tag # "Ok"

\* lines i..n of ls delimit a part: a boundary line, header lines, a blank
\* line at m, lines that do not begin with the boundary, a boundary line
Delimits(ls, i, m, n) ==
    /\ 1 <= i /\ i < m /\ m < n /\ n <= Len(ls)
    /\ BeginsWith(ls[i], boundary)
    /\ \A h \in (i + 1)..(m - 1) : IsHeaderLine(ls[h])
    /\ IsBlank(ls[m])
    /\ \A b \in (m + 1)..(n - 1) : ~BeginsWith(ls[b], boundary)
    /\ BeginsWith(ls[n], boundary)

\* the regions of the consumed lines that end at the last consumed line
RegionsAt(ls) == {r \in (1..Len(ls)) \X (1..Len(ls)) : Delimits(ls, r[1], r[2], Len(ls))}

\* C2: a Part is returned only with the cursor right after a boundary line
\* that closes a region opened by an earlier boundary line, and the Part's
\* body is the lines of that region after its blank line: no pending part is
\* returned where the buffer ends.
C2_NoPartialPart ==
    ReturnedOk =>
        LET ls == ConsumedLines
        IN \E r \in RegionsAt(ls) :
              LastPolled.item[1].data = Flatten(SubSeq(ls, r[2] + 1, Len(ls) - 1))

\* a part was returned, and the next call ended where the buffer ends, with
\* a part pending in its body before an unterminated boundary
C2_Witness ==
    /\ Returned
    /\ Len(polled) = 2
    /\ polled[1].tag = "Ok"
    /\ polled[2] = ReadyNone
    /\ state = "Boundary"
    /\ pending_item # None
    /\ data = BoundaryBytes

\* C3: once the state is Eof it stays Eof and no call returns a Part; and
\* after a call has returned Ready(None) no later call returns a Part.
C3_EofAbsorbing ==
    /\ [][state = "Eof" =>
            /\ state' = "Eof"
            /\ ReturnsNow => polled'[Len(polled')].tag # "Ok"]_vars
    /\ [](NoOkAfter("None"))

\* in Eof, after the error, two more calls returned Ready(None) with lines left
C3_Witness ==
    /\ state = "Eof"
    /\ Returned
    /\ Len(polled) = 3
    /\ polled[1].tag = "Err"
    /\ polled[3] = ReadyNone
    /\ HasTerminator(data)

\* a line the header arm must reject
BadHeaderLine(l) == ~IsBlank(l) /\ (~from_utf8_ok(l) \/ Occurrences(SEP, l) # 1)

\* C4: in Headers, a non-blank line that is no text or has the separator
\* zero times or more than once makes the call return InvalidItemHeader at
\* once, in Eof; no call after an error returns a Part.
C4_InvalidItemHeader ==
    /\ [][(Scanning /\ state = "Headers" /\ BadHeaderLine(NextLine)) =>
            /\ polled' = Append(polled, ReadyErr("InvalidItemHeader"))
            /\ state' = "Eof"
            /\ pc' = "idle"]_vars
    /\ [](NoOkAfter("Err"))

\* a header line with two separators was rejected; the rest of its part and
\* its closing boundary are still in the buffer, and the next call returned
\* Ready(None)
C4_Witness ==
    /\ Returned
    /\ polled = <<ReadyErr("InvalidItemHeader"), ReadyNone>>
    /\ LinesOf(data) = <<L_KVW, L_SP, L_B>>

\* C5: in FirstBoundary and in Boundary a line makes the boundary's
\* transition (to Headers; in Boundary, returning the pending part) if and
\* only if its bytes begin with the boundary.
C5_BoundaryIsPrefix ==
    [][(Scanning /\ state \in {"FirstBoundary", "Boundary"}) =>
          /\ state' = "Headers" <=> BeginsWith(NextLine, boundary)
          /\ state = "Boundary" => (ReturnsNow <=> BeginsWith(NextLine, boundary))]_vars

\* "-B--" opened a part and closed it; "-", a prefix of the boundary, was body
C5_Witness ==
    /\ ReturnedOk
    /\ ConsumedLines = <<L_BX, L_SP, L_DASH, L_BX>>
    /\ LastPolled = ReadyOk([headers |-> <<>>, data |-> L_DASH])

\* C6: the headers of a returned Part are the (name, value) pairs of the
\* "name: value" lines between the part's opening boundary line and the
\* first blank line, one per line, in their order, as written.
C6_HeadersAsWritten ==
    ReturnedOk =>
        LET ls == ConsumedLines
            regions == RegionsAt(ls)
        IN /\ Cardinality(regions) = 1
           /\ \A r \in regions :
                 LastPolled.item[1].headers =
                     [h \in 1..(r[2] - r[1] - 1) |-> PairOf(ls[r[1] + h])]

\* the second part returned has the same header twice; the first has two
\* names that differ in case only
C6_Witness ==
    /\ ReturnedOk
    /\ Len(polled) = 2
    /\ polled[1].item[1].headers = <<<<(<<75>>), (<<118>>)>>, <<(<<107>>), (<<118>>)>> >>
    /\ polled[2].item[1].headers = <<<<(<<107>>), (<<118>>)>>, <<(<<107>>), (<<118>>)>> >>

(***************************************************************************)
(* The constructor from headers, stated on the header collection.          *)
(***************************************************************************)
Fold(b) == IF b >= 65 /\ b <= 90 THEN b + 32 ELSE b
EqIgnoreCase(a, b) == Len(a) = Len(b) /\ \A i \in 1..Len(a) : Fold(a[i]) = Fold(b[i])

HasContentType == \E i \in 1..Len(headers) : EqIgnoreCase(headers[i][1], CONTENT_TYPE)
\* the value of the first such entry
ContentTypeValue ==
    headers[Min({i \in 1..Len(headers) : EqIgnoreCase(headers[i][1], CONTENT_TYPE)})][2]
ContentTypeMime == mime_parse(ContentTypeValue)

\* the value written after "; boundary=", up to the next ";"
BoundaryKey == <<59, 32>> \o BOUNDARY \o <<61>>
BoundaryParam(v) ==
    LET folded == [i \in 1..Len(v) |-> Fold(v[i])]
        at == {i \in 0..(Len(v) - Len(BoundaryKey)) :
                  SubSeq(folded, i + 1, i + Len(BoundaryKey)) = BoundaryKey}
    IN IF at = {} THEN None
       ELSE LET from == Min(at) + Len(BoundaryKey) + 1
                ends == {j \in from..Len(v) : v[j] = 59} \cup {Len(v) + 1}
            IN Some(SubSeq(v, from, Min(ends) - 1))

\* the recognized subtypes
Recognized ==
    {<<FORM_DATA, "FormData">>, <<MIXED, "Mixed">>, <<BYTE_RANGES, "ByteRanges">>}

\* C7: a Content-Type value whose top-level type is not "multipart" makes
\* from_data_with_headers fail with InvalidContentType, whatever parameters
\* it has or lacks.
C7_NotMultipartIsInvalidContentType ==
    (pc # "new" /\ HasContentType /\ ContentTypeMime # None
        /\ ContentTypeMime[1].type_ # MULTIPART)
    => result = "InvalidContentType"

\* C8: for a Content-Type value of top-level type "multipart",
\* from_data_with_headers fails with InvalidBoundary when there is no
\* boundary parameter, else with InvalidMultipartType when the subtype is
\* not recognized, else returns a reader with the parameter's value as its
\* boundary, the subtype's type, in FirstBoundary, with no pending item.
C8_MultipartContentType ==
    (pc # "new" /\ HasContentType /\ ContentTypeMime # None
        /\ ContentTypeMime[1].type_ = MULTIPART)
    => LET b == BoundaryParam(ContentTypeValue)
           sub == ContentTypeMime[1].subtype
       IN IF b = None THEN result = "InvalidBoundary"
          ELSE IF \A r \in Recognized : r[1] # sub THEN result = "InvalidMultipartType"
          ELSE /\ result = "Ok"
               /\ boundary = b[1]
               /\ <<sub, multipart_type>> \in Recognized
               /\ (pc = "idle" /\ polled = <<>>) =>
                      /\ state = "FirstBoundary"
                      /\ pending_item = None
                      /\ data = input

\* "multipart/form-data; boundary=-B" has just given a reader
C8_Witness ==
    /\ pc = "idle"
    /\ polled = <<>>
    /\ result = "Ok"
    /\ ContentTypeMime[1].subtype = FORM_DATA
    /\ boundary = BoundaryBytes
    /\ multipart_type = "FormData"
    /\ state = "FirstBoundary"

\* C9: from_data_with_headers fails with NoContentType if and only if no
\* entry of the collection has a name equal to "content-type" up to case.
C9_NoContentType ==
    pc # "new" => (result = "NoContentType" <=> ~HasContentType)

\* the entry is found under the name "CONTENT-TYPE", after another entry
C9_Witness ==
    /\ pc # "new"
    /\ Len(headers) = 2
    /\ headers[1][1] = <<104, 111, 115, 116>>
    /\ headers[2][1] = <<67, 79, 78, 84, 69, 78, 84, 45, 84, 89, 80, 69>>
    /\ result = "InvalidBoundary"

\* the bytes of s after its last terminator
UnterminatedTail(s) ==
    IF ~HasTerminator(s) THEN s
    ELSE LET at == {j \in 0..(Len(s) - 2) : TerminatorAt(s, j)}
             last == CHOOSE j \in at : \A k \in at : k <= j
         IN SubSeq(s, last + 3, Len(s))

\* C10: with no terminator in the unconsumed buffer poll_next returns
\* Ready(None) and leaves the state, the cursor and the pending item as they
\* were; the cursor never passes the bytes after the last terminator.
C10_NoTerminatorNoChange ==
    /\ [][(pc = "loop" /\ ~HasTerminator(data)) =>
            /\ polled' = Append(polled, ReadyNone)
            /\ pc' = "idle"
            /\ UNCHANGED <<state, data, pending_item>>]_vars
    /\ [](Constructed =>
            LET tl == UnterminatedTail(input)
            IN /\ Len(data) >= Len(tl)
               /\ SubSeq(data, Len(data) - Len(tl) + 1, Len(data)) = tl)

\* a part is pending in its body, the buffer ends in an unterminated
\* boundary, and two calls in a row have returned Ready(None)
C10_Witness ==
    /\ Returned
    /\ Len(polled) = 2
    /\ polled[1] = ReadyNone
    /\ polled[2] = ReadyNone
    /\ state = "Boundary"
    /\ pending_item = Some([headers |-> <<PairOf(L_KV)>>, data |-> L_DASH])
    /\ data = BoundaryBytes

\* what is left of s after its first terminated line
AfterFirstLine(s) == SubSeq(s, Len(LinesOf(s)[1]) + 3, Len(s))
IsSuffix(s, whole) ==
    Len(s) <= Len(whole) /\ SubSeq(whole, Len(whole) - Len(s) + 1, Len(whole)) = s

\* C11: the cursor only moves forward: the unconsumed view is a suffix of
\* the buffer, and a step either leaves it or drops exactly the line it
\* scanned with its terminator, so no consumed byte is scanned again.
C11_CursorForwardOnly ==
    /\ [][Constructed =>
            \/ data' = data
            \/ Scanning /\ data' = AfterFirstLine(data)]_vars
    /\ [](Constructed => IsSuffix(data, input))

\* three calls have moved the cursor over five lines, up to the tail
C11_Witness ==
    /\ Returned
    /\ Len(polled) = 3
    /\ polled[1].tag = "Ok"
    /\ polled[2].tag = "Ok"
    /\ Len(ConsumedLines) = 5
    /\ data = <<>>

\* a step that returns a Part
ReturnsOkNow == ReturnsNow /\ polled'[Len(polled')].tag = "Ok"
\* a boundary line is about to be scanned in Boundary
AtClosingBoundary == Scanning /\ state = "Boundary" /\ BeginsWith(NextLine, boundary)

\* C12, as claimed: a Part is returned only at a boundary line scanned in
\* Boundary after body bytes have been accumulated; a boundary line scanned
\* in Boundary before any body byte returns no Part and moves to Headers
\* with a fresh pending item.
C12_PartOnlyAfterBody ==
    [][/\ ReturnsOkNow =>
            (AtClosingBoundary /\ pending_item # None /\ pending_item[1].data # <<>>)
       /\ (AtClosingBoundary /\ pending_item # None /\ pending_item[1].data = <<>>) =>
            (~ReturnsNow /\ state' = "Headers" /\ pending_item' = Some(EmptyItem))]_vars

\* C12, amended: a Part is returned only at a boundary line scanned in
\* Boundary, and it is the pending item, whether or not body bytes have been
\* accumulated; a boundary line scanned in Boundary before any body byte
\* returns the pending item with an empty body and moves to Headers with no
\* pending item.
C12_PartAtBoundaryWithPending ==
    [][/\ ReturnsOkNow =>
            /\ AtClosingBoundary
            /\ pending_item # None
            /\ polled' = Append(polled, ReadyOk(pending_item[1]))
       /\ (AtClosingBoundary /\ pending_item # None /\ pending_item[1].data = <<>>) =>
            /\ polled' = Append(polled, ReadyOk(pending_item[1]))
            /\ state' = "Headers"
            /\ pending_item' = None]_vars

\* the boundary line right after the blank line returned a Part with one
\* header and an empty body
C12_Witness ==
    /\ ReturnedOk
    /\ ConsumedLines = <<L_B, L_KV, L_SP, L_B>>
    /\ LastPolled = ReadyOk([headers |-> <<PairOf(L_KV)>>, data |-> <<>>])
    /\ state = "Headers"
    /\ pending_item = None

\* C13: a call returns at most one value; a Part is returned at the first
\* boundary line scanned in Boundary, by the step that scans it, which ends
\* the call with the cursor just after that line, in Headers, with no pending
\* item; so after a returned Part the last consumed line is that boundary
\* line and the lines after it wait for the next call.
C13_ReturnsAtFirstClosingBoundary ==
    /\ [][/\ ReturnsNow =>
               /\ pc = "loop"
               /\ pc' = "idle"
               /\ Len(polled') = Len(polled) + 1
               /\ SubSeq(polled', 1, Len(polled)) = polled
          /\ AtClosingBoundary => ReturnsOkNow
          /\ ReturnsOkNow =>
               /\ AtClosingBoundary
               /\ data' = AfterFirstLine(data)
               /\ state' = "Headers"
               /\ pending_item' = None]_vars
    /\ [](ReturnedOk =>
            /\ state = "Headers"
            /\ pending_item = None
            /\ ConsumedLines # <<>>
            /\ BeginsWith(ConsumedLines[Len(ConsumedLines)], boundary)
            /\ Consumed \o data = input)

\* two calls returned the two parts around one shared boundary line, each
\* at its closing boundary
C13_Witness ==
    /\ ReturnedOk
    /\ Len(polled) = 2
    /\ polled[1].tag = "Ok"
    /\ ConsumedLines = <<L_B, L_EMPTY, L_B, L_EMPTY, L_BX>>
    /\ data = <<>>

\* C14: each constructor leaves the reader in FirstBoundary with no pending
\* item; the state changes only FirstBoundary -> Headers at a boundary line,
\* Headers -> Boundary at a blank line, Boundary -> Headers at a boundary
\* line, Headers -> Eof at a header error; FirstBoundary is never entered
\* again; and Boundary -> Headers happens exactly when a Part is returned, so
\* one Headers/Boundary pair is passed per returned Part.
C14_StateTransitions ==
    /\ [][/\ (pc = "new" /\ pc' = "idle") =>
               (state' = "FirstBoundary" /\ pending_item' = None /\ polled' = <<>>)
          /\ (Constructed /\ state' # state) =>
               /\ Scanning
               /\ \/ /\ state = "FirstBoundary"
                     /\ state' = "Headers"
                     /\ BeginsWith(NextLine, boundary)
                  \/ /\ state = "Headers"
                     /\ state' = "Boundary"
                     /\ IsBlank(NextLine)
                  \/ /\ state = "Boundary"
                     /\ state' = "Headers"
                     /\ BeginsWith(NextLine, boundary)
                  \/ /\ state = "Headers"
                     /\ state' = "Eof"
                     /\ BadHeaderLine(NextLine)
                     /\ ReturnsNow
                     /\ polled'[Len(polled')] = ReadyErr("InvalidItemHeader")
          /\ (Constructed /\ state # "FirstBoundary") => state' # "FirstBoundary"
          /\ (Constructed /\ state = "Boundary" /\ state' = "Headers") <=> ReturnsOkNow]_vars
    /\ []((pc = "idle" /\ polled = <<>>) =>
            (state = "FirstBoundary" /\ pending_item = None /\ data = input))

\* a reader has passed FirstBoundary, one Headers/Boundary pair and a second
\* Headers, and ended in Eof
C14_Witness ==
    /\ Returned
    /\ result = "Ok"
    /\ ConsumedLines = <<L_B, L_SP, L_B>>
    /\ LinesOf(data) = <<L_KVW>>
    /\ polled = <<ReadyOk(EmptyItem), ReadyErr("InvalidItemHeader")>>
    /\ state = "Eof"

\* C15: a line scanned in FirstBoundary that does not begin with the boundary
\* is consumed and nothing else changes: no pending item is created, nothing
\* is returned, the state stays, whatever the line holds; so while in
\* FirstBoundary there is no pending item and no call has returned a Part or
\* an error.
C15_PreambleDiscarded ==
    /\ [][(Scanning /\ state = "FirstBoundary" /\ ~BeginsWith(NextLine, boundary)) =>
            /\ data' = AfterFirstLine(data)
            /\ pending_item' = None
            /\ UNCHANGED <<state, pending_item, polled, pc>>]_vars
    /\ [](state = "FirstBoundary" =>
            /\ pending_item = None
            /\ \A i \in 1..Len(polled) : polled[i] = ReadyNone)

\* a line that is no text and a line with two separators were passed over
\* before the first boundary line, with nothing returned
C15_Witness ==
    /\ pc = "loop"
    /\ ConsumedLines = <<L_BAD, L_KVW, L_B>>
    /\ state = "Headers"
    /\ pending_item = None
    /\ polled = <<>>

\* the headers and the body of the pending item, empty when there is none
PendingHeaders == IF pending_item = None THEN <<>> ELSE pending_item[1].headers
PendingBody == IF pending_item = None THEN <<>> ELSE pending_item[1].data

\* C16: the pending headers grow only in Headers, by the pair of the scanned
\* line, with the body untouched; the pending body grows only in Boundary; a
\* line scanned in Boundary that does not begin with the boundary appends
\* exactly its bytes, without terminator or separator, to the pending body
\* and leaves the pending headers and the state unchanged; while in Headers
\* the pending body is empty, so header lines precede body lines.
C16_DisjointPhases ==
    /\ [][/\ (pending_item' # None /\ PendingHeaders' # PendingHeaders) =>
               /\ Scanning
               /\ state = "Headers"
               /\ IsHeaderLine(NextLine)
               /\ PendingHeaders' = Append(PendingHeaders, PairOf(NextLine))
               /\ PendingBody' = PendingBody
          /\ (pending_item' # None /\ PendingBody' # PendingBody) =>
               /\ Scanning
               /\ state = "Boundary"
               /\ PendingHeaders' = PendingHeaders
          /\ (Scanning /\ state = "Boundary" /\ ~BeginsWith(NextLine, boundary)) =>
               /\ pending_item # None
               /\ PendingBody' = PendingBody \o NextLine
               /\ PendingHeaders' = PendingHeaders
               /\ data' = AfterFirstLine(data)
               /\ UNCHANGED <<state, pc, polled>>]_vars
    /\ [](state = "Headers" => PendingBody = <<>>)

\* two body lines were appended back to back after two headers
C16_Witness ==
    /\ pc = "loop"
    /\ state = "Boundary"
    /\ ConsumedLines = <<L_B, L_KV, L_KV, L_EMPTY, L_BAD, L_DASH>>
    /\ pending_item =
           Some([headers |-> <<PairOf(L_KV), PairOf(L_KV)>>, data |-> L_BAD \o L_DASH])

\* C17: in every state of a reader, Boundary comes with a pending item and
\* FirstBoundary with none; so the unwrap of the pending item in the Boundary
\* arm never fails, and a line is never scanned in Boundary without a pending
\* item, which is the only way into the branch that opens a fresh item and
\* gives it the boundary line.
C17_PendingMatchesState ==
    Constructed =>
        /\ state = "Boundary" => pending_item # None
        /\ state = "FirstBoundary" => pending_item = None
        /\ pc # "panic"
        /\ ~(Scanning /\ state = "Boundary" /\ pending_item = None)

\* a boundary line is about to be scanned in Boundary right after the blank
\* line, and the pending item is there
C17_Witness ==
    /\ AtClosingBoundary
    /\ ConsumedLines = <<L_DASH, L_B, L_SP>>
    /\ pending_item = Some(EmptyItem)

\* no line from the cursor on begins with the boundary
NoBoundaryAhead == \A i \in 1..Len(LinesOf(data)) : ~BeginsWith(LinesOf(data)[i], boundary)
\* in Headers the line to scan begins with the boundary, or is not blank and
\* comes after the last boundary line
BoundaryOrEpilogueInHeaders ==
    /\ Scanning
    /\ state = "Headers"
    /\ ~IsBlank(NextLine)
    /\ BeginsWith(NextLine, boundary) \/ NoBoundaryAhead
\* the scanned line becomes a header of the pending item
StoredAsHeader ==
    /\ pending_item' # None
    /\ PendingHeaders' = Append(PendingHeaders, PairOf(NextLine))
    /\ PendingBody' = PendingBody
    /\ data' = AfterFirstLine(data)
    /\ UNCHANGED <<state, pc, polled>>
\* the scanned line ends the call with InvalidItemHeader, in Eof
RejectedAsHeader ==
    /\ polled' = Append(polled, ReadyErr("InvalidItemHeader"))
    /\ state' = "Eof"
    /\ pc' = "idle"

\* C18, as claimed: in Headers a line that begins with the boundary, and a
\* non-blank line after the last boundary line, is stored as a header of the
\* pending item if it holds the separator exactly once, and otherwise yields
\* InvalidItemHeader and Eof.
C18_SeparatorOnceIsStored ==
    [][BoundaryOrEpilogueInHeaders =>
          IF Occurrences(SEP, NextLine) = 1 THEN StoredAsHeader ELSE RejectedAsHeader]_vars

\* C18, amended: in Headers a line that begins with the boundary, and a
\* non-blank line after the last boundary line, is stored as a header of the
\* pending item if it is valid text and holds the separator exactly once, and
\* otherwise yields InvalidItemHeader and Eof; it is never taken as a
\* boundary.
C18_TextWithSeparatorOnceIsStored ==
    [][BoundaryOrEpilogueInHeaders =>
          IF from_utf8_ok(NextLine) /\ Occurrences(SEP, NextLine) = 1
          THEN StoredAsHeader
          ELSE RejectedAsHeader]_vars

\* the second of two consecutive boundary lines was read as a header line and
\* rejected
C18_Witness ==
    /\ Returned
    /\ ConsumedLines = <<L_B>>
    /\ HasTerminator(data)
    /\ LinesOf(data)[1] = L_BX
    /\ polled = <<ReadyErr("InvalidItemHeader")>>
    /\ state = "Eof"

\* inside a call a step can be taken: the loop ends, or the state is one the
\* match has an arm for
CanStep == idx = None \/ state \in {"FirstBoundary", "Boundary", "Headers", "Eof"}
\* the terminated lines of s, counted by their terminators
TerminatedLines(s) == Cardinality({i \in 0..(Len(s) - 2) : TerminatorAt(s, i)})
\* the calls so far that returned a Part or an error
ReturnedSomething == {i \in 1..Len(polled) : polled[i].tag \in {"Ok", "Err"}}

\* C19: every call ends: inside a call a step is always possible, and each
\* step either returns or goes on in the loop with the unconsumed buffer
\* shorter by at least the length of the terminator, never failing; the
\* calls that return a Part or an error are
\* never more than the terminated lines of the buffer; and once a call has
\* returned "nothing available" every later call does.
C19_CallsTerminate ==
    /\ [][pc = "loop" =>
            \/ ReturnsNow /\ pc' = "idle" /\ data' = data
            \/ ReturnsOkNow /\ pc' = "idle" /\ Len(data') <= Len(data) - Len(CRLF)
            \/ ~ReturnsNow /\ pc' = "loop" /\ Len(data') <= Len(data) - Len(CRLF)]_vars
    /\ [](pc = "loop" => CanStep)
    /\ [](Constructed => Cardinality(ReturnedSomething) <= TerminatedLines(input))
    /\ [](\A j \in 1..Len(polled) : \A k \in (j + 1)..Len(polled) :
            polled[j] = ReadyNone => polled[k] = ReadyNone)

\* on a buffer of four lines the first call returned a Part, the second an
\* error, and the two calls after them nothing
C19_Witness ==
    /\ Returned
    /\ TerminatedLines(input) = 4
    /\ ConsumedLines = <<L_B, L_SP, L_B>>
    /\ polled = <<ReadyOk(EmptyItem), ReadyErr("InvalidItemHeader"), ReadyNone, ReadyNone>>

====
